---- MODULE Spec2Model ----
(***************************************************************************)
(* Model of mogwai/migrations/migrations/actions.py: the schema-diff       *)
(* action classes, the construction of an action (with the interactive     *)
(* NOT NULL / no default dialogue), the code fragments an action renders   *)
(* and their insertion into the forwards / backwards lists.                *)
(***************************************************************************)
EXTENDS Integers, Sequences, FiniteSets, TLC

VARIABLES pc, cur, args, dlg, ndlg, last, out, exit_status, exc, ret,
          forwards, backwards, calls, did

vars == <<pc, cur, args, dlg, ndlg, last, out, exit_status, exc, ret,
          forwards, backwards, calls, did>>

\* ------------------------------------------------------------------ bounds
MaxFields == 2      \* longest field list of a unique constraint / index
MaxActions == 2     \* longest sequence of actions spliced into the lists

\* ------------------------------------------------------------------ inputs
None == "None"

\* model classes: a Vertex subclass, an Edge subclass, an unrelated class
Models ==
  { [name |-> "Person", base |-> "Vertex", element_type |-> "person", label |-> ""],
    [name |-> "Knows",  base |-> "Edge",   element_type |-> "",       label |-> "knows"],
    [name |-> "Plain",  base |-> "object", element_type |-> "",       label |-> ""] }

Columns == {"c1", "c2"}

\* property objects: only String / Text carry a meaningful `blank`
Fields ==
  { f \in [name : {"f"}, column : Columns, type : {"String", "Text", "Integer"},
           blank : BOOLEAN, required : BOOLEAN, default : {None, "d"}] :
      f.blank => f.type \in {"String", "Text"} }

\* a smaller family of properties for sequences of actions
SeqFields ==
  { f \in Fields : f.column = "c1" /\ f.type = "String" /\ f.default = None
                   /\ (f.blank => ~f.required) }

\* field definition triples; only kwargs['default'] (field_def[2]) is read or written
Defs == { [default |-> "absent"], [default |-> "'d'"] }

ModelDefs == { <<>>, <<[name |-> "f", def |-> [default |-> "absent"]]>> }

\* field lists of unique constraints and indexes
IndexFields == { f \in Fields : f.type = "Integer" /\ f.required /\ f.default = None }

FieldLists == UNION { [1..n -> IndexFields] : n \in 1..MaxFields }

AppNames == {"app"}

\* what the user types at " ? Please select a choice: "
Choices == {"1", "2", "3", "4", ""}

\* what the user types at " >>> "
Codes == {"", "exit", "1", "1 +", "x", "1/0"}

NoField == [name |-> "", column |-> "", type |-> "", blank |-> FALSE,
            required |-> FALSE, default |-> None]

NoDef == [default |-> "absent"]

NoModel == [name |-> "", base |-> "", element_type |-> "", label |-> ""]

\* ------------------------------------------------------------------ classes
ModelClasses == {"AddModel", "DeleteModel"}
FieldClasses == {"AddField", "DeleteField"}
UniqueClasses == {"AddUnique", "DeleteUnique"}
IndexClasses == {"AddIndex", "DeleteIndex", "UpdateIndex"}
Classes == ModelClasses \cup FieldClasses \cup {"ChangeField"}
             \cup UniqueClasses \cup IndexClasses

\* Action.prepend_forwards and its overrides
prepend_forwards(cls) == cls = "DeleteUnique"

\* Action.prepend_backwards and its overrides (DeleteIndex and UpdateIndex inherit AddIndex's)
prepend_backwards(cls) == cls \in {"AddUnique", "AddIndex", "DeleteIndex", "UpdateIndex"}

\* the class attribute null_reason
null_reason(cls) ==
  CASE cls = "AddField"    -> "adding this field"
    [] cls = "DeleteField" -> "removing this field"
    [] cls = "ChangeField" -> "making this field non-nullable"
    [] OTHER               -> ""

\* the class attribute issue_with_backward_migration
issue_with_backward_migration(cls) == cls = "DeleteField"

\* ------------------------------------------------------------------ objects
\* the attributes of an action object; unset attributes hold the empty values
NoAction ==
  [cls |-> "", app_name |-> "", model |-> NoModel, model_def |-> <<>>,
   model_class_name |-> "", model_type |-> "", model_name |-> "",
   field |-> NoField, field_def |-> NoDef,
   old_field |-> NoField, new_field |-> NoField, old_def |-> NoDef, new_def |-> NoDef,
   fields |-> <<>>, null_reason |-> "", issue_with_backward_migration |-> FALSE,
   irreversible |-> FALSE]

NoDlg == [on |-> "none", reason |-> "", offered3 |-> FALSE, end |-> "none"]

NoRet == [op |-> "none", ok |-> TRUE, exc |-> "", text |-> <<>>]


\* ------------------------------------------------------------------ rendering
\* a template filled in: the template and the values of its placeholders, in order
Piece(tpl, scalars, lists) == [tpl |-> tpl, scalars |-> scalars, lists |-> lists]

\* the value a method returns, or the exception it ends in
Returns(text) == [ok |-> TRUE, exc |-> "", text |-> text]

Raises(e) == [ok |-> FALSE, exc |-> e, text |-> <<>>]

\* [field.column for field in self.fields]
columns_of(fs) == [i \in 1..Len(fs) |-> fs[i].column]

\* [field.name for field in self.fields]
names_of(fs) == [i \in 1..Len(fs) |-> fs[i].name]

\* self.triples_to_defs(...): no class of the module defines it
triples_to_defs(a, model_def) == Raises("AttributeError")

\* self.triple_to_def(...): no class of the module defines it
triple_to_def(a, field_def) == Raises("AttributeError")

AddModel_forwards_code(a) ==
  LET defs == triples_to_defs(a, a.model_def)
  IN  IF ~defs.ok THEN defs
      ELSE Returns(<<Piece("AddModel.FORWARDS_TEMPLATE",
                           <<a.model_type, a.model_class_name, a.model_name, a.app_name>>,
                           <<defs.text>>)>>)

AddModel_backwards_code(a) ==
  Returns(<<Piece("AddModel.BACKWARDS_TEMPLATE",
                  <<a.model_type, a.model_class_name, a.model_name>>, <<>>)>>)

DeleteModel_forwards_code(a) == AddModel_backwards_code(a)

DeleteModel_backwards_code(a) == AddModel_forwards_code(a)

irreversable_code(a, field) ==
  <<Piece("IRREVERSIBLE_TEMPLATE", <<a.model_class_name, field.name>>, <<>>)>>

AddField_forwards_code(a) ==
  LET d == triple_to_def(a, a.field_def)
  IN  IF ~d.ok THEN d
      ELSE Returns(<<Piece("AddField.FORWARDS_TEMPLATE",
                           <<a.model_class_name, a.field.name, a.model_name>>,
                           <<d.text>>)>>)

AddField_backwards_code(a) ==
  Returns(<<Piece("AddField.BACKWARDS_TEMPLATE",
                  <<a.model_class_name, a.field.name, a.model_name, a.field.column>>,
                  <<>>)>>)

DeleteField_forwards_code(a) == AddField_backwards_code(a)

DeleteField_backwards_code(a) ==
  LET f == AddField_forwards_code(a)
  IN  IF ~a.irreversible THEN f
      ELSE IF ~f.ok THEN f
      ELSE Returns(irreversable_code(a, a.field) \o f.text)

\* ChangeField._code
ChangeField_code(a, old_field, new_field, new_def) ==
  LET rename == IF a.old_field.column # a.new_field.column
                THEN <<Piece("ChangeField.RENAME_TEMPLATE",
                             <<a.model_class_name, new_field.name, a.model_name,
                               old_field.column, new_field.column>>, <<>>)>>
                ELSE <<>>
      d == triple_to_def(a, new_def)
  IN  IF ~d.ok THEN d
      ELSE Returns(rename \o
                   <<Piece("ChangeField.FORWARDS_TEMPLATE",
                           <<a.model_class_name, new_field.name, a.model_name,
                             new_field.column>>, <<d.text>>)>>)

ChangeField_forwards_code(a) == ChangeField_code(a, a.old_field, a.new_field, a.new_def)

ChangeField_backwards_code(a) ==
  LET change_code == ChangeField_code(a, a.new_field, a.old_field, a.old_def)
  IN  IF ~a.irreversible THEN change_code
      ELSE IF ~change_code.ok THEN change_code
      ELSE Returns(irreversable_code(a, a.old_field) \o change_code.text)

\* the unique / index templates all take the same four values
FieldsPiece(tpl, a) ==
  Piece(tpl, <<a.model_class_name, a.model_name>>,
        <<names_of(a.fields), columns_of(a.fields)>>)

AddUnique_forwards_code(a) == Returns(<<FieldsPiece("AddUnique.FORWARDS_TEMPLATE", a)>>)

AddUnique_backwards_code(a) == Returns(<<FieldsPiece("AddUnique.BACKWARDS_TEMPLATE", a)>>)

DeleteUnique_forwards_code(a) == AddUnique_backwards_code(a)

DeleteUnique_backwards_code(a) == AddUnique_forwards_code(a)

AddIndex_forwards_code(a) == Returns(<<FieldsPiece("AddIndex.FORWARDS_TEMPLATE", a)>>)

AddIndex_backwards_code(a) == Returns(<<FieldsPiece("AddIndex.BACKWARDS_TEMPLATE", a)>>)

DeleteIndex_forwards_code(a) == AddIndex_backwards_code(a)

DeleteIndex_backwards_code(a) == AddIndex_forwards_code(a)

UpdateIndex_forwards_code(a) == Returns(<<FieldsPiece("AddIndex.UPDATE_TEMPLATE", a)>>)

UpdateIndex_backwards_code(a) == Returns(<<FieldsPiece("AddIndex.UPDATE_TEMPLATE", a)>>)

\* method resolution of a.forwards_code()
forwards_code(a) ==
  CASE a.cls = "AddModel"     -> AddModel_forwards_code(a)
    [] a.cls = "DeleteModel"  -> DeleteModel_forwards_code(a)
    [] a.cls = "AddField"     -> AddField_forwards_code(a)
    [] a.cls = "DeleteField"  -> DeleteField_forwards_code(a)
    [] a.cls = "ChangeField"  -> ChangeField_forwards_code(a)
    [] a.cls = "AddUnique"    -> AddUnique_forwards_code(a)
    [] a.cls = "DeleteUnique" -> DeleteUnique_forwards_code(a)
    [] a.cls = "AddIndex"     -> AddIndex_forwards_code(a)
    [] a.cls = "DeleteIndex"  -> DeleteIndex_forwards_code(a)
    [] a.cls = "UpdateIndex"  -> UpdateIndex_forwards_code(a)
    [] OTHER                  -> Raises("NotImplementedError")

\* method resolution of a.backwards_code()
backwards_code(a) ==
  CASE a.cls = "AddModel"     -> AddModel_backwards_code(a)
    [] a.cls = "DeleteModel"  -> DeleteModel_backwards_code(a)
    [] a.cls = "AddField"     -> AddField_backwards_code(a)
    [] a.cls = "DeleteField"  -> DeleteField_backwards_code(a)
    [] a.cls = "ChangeField"  -> ChangeField_backwards_code(a)
    [] a.cls = "AddUnique"    -> AddUnique_backwards_code(a)
    [] a.cls = "DeleteUnique" -> DeleteUnique_backwards_code(a)
    [] a.cls = "AddIndex"     -> AddIndex_backwards_code(a)
    [] a.cls = "DeleteIndex"  -> DeleteIndex_backwards_code(a)
    [] a.cls = "UpdateIndex"  -> UpdateIndex_backwards_code(a)
    [] OTHER                  -> Raises("NotImplementedError")

\* method resolution of a.console_line()
console_line(a) ==
  CASE a.cls = "AddModel" ->
         Returns(<<Piece(" + Added model %s.%s", <<a.app_name, a.model_name>>, <<>>)>>)
    [] a.cls = "DeleteModel" ->
         Returns(<<Piece(" - Deleted model %s.%s", <<a.app_name, a.model_class_name>>, <<>>)>>)
    [] a.cls = "AddField" ->
         Returns(<<Piece(" + Added field %s on %s.%s",
                         <<a.field.name, a.app_name, a.model_class_name>>, <<>>)>>)
    [] a.cls = "DeleteField" ->
         Returns(<<Piece(" - Deleted field %s on %s.%s",
                         <<a.field.name, a.app_name, a.model_class_name>>, <<>>)>>)
    [] a.cls = "ChangeField" ->
         Returns(<<Piece(" ~ Changed field %s on %s.%s",
                         <<a.new_field.name, a.app_name, a.model_class_name>>, <<>>)>>)
    [] a.cls = "AddUnique" ->
         Returns(<<Piece(" + Added unique constraint for %s on %s.%s",
                         <<a.app_name, a.model_class_name>>, <<names_of(a.fields)>>)>>)
    [] a.cls = "DeleteUnique" ->
         Returns(<<Piece(" - Deleted unique constraint for %s on %s.%s",
                         <<a.app_name, a.model_class_name>>, <<names_of(a.fields)>>)>>)
    [] a.cls = "AddIndex" ->
         Returns(<<Piece(" + Added index for %s on %s.%s",
                         <<a.app_name, a.model_class_name>>, <<names_of(a.fields)>>)>>)
    [] a.cls = "DeleteIndex" ->
         Returns(<<Piece(" + Deleted index for %s on %s.%s",
                         <<a.app_name, a.model_class_name>>, <<names_of(a.fields)>>)>>)
    [] a.cls = "UpdateIndex" ->
         Returns(<<Piece(" + Updated index for %s on %s.%s",
                         <<a.app_name, a.model_class_name>>, <<names_of(a.fields)>>)>>)
    [] OTHER -> Raises("NotImplementedError")

\* ------------------------------------------------------------------ construction
\* issubclass(self.model, Vertex) / issubclass(self.model, Edge): the value of model_type
model_type_of(model) ==
  IF model.base = "Vertex" THEN "vertex"
  ELSE IF model.base = "Edge" THEN "edge"
  ELSE ""

\* self.model.get_element_type() for a vertex, self.model.get_label() for an edge
model_name_of(model) ==
  IF model.base = "Vertex" THEN model.element_type
  ELSE IF model.base = "Edge" THEN model.label
  ELSE ""

\* the assignments every __init__ makes before the Vertex / Edge test, and its two branches
NewAction(cls, model, app_name) ==
  [NoAction EXCEPT !.cls = cls, !.app_name = app_name, !.model = model,
                   !.model_class_name = model.name,
                   !.model_type = model_type_of(model),
                   !.model_name = model_name_of(model),
                   !.null_reason = null_reason(cls),
                   !.issue_with_backward_migration = issue_with_backward_migration(cls)]

\* the else branch left out: any class is taken for a model
NotVertexOrEdge_never(model) == FALSE

\* the else branch of the test: raise MogwaiMigrationException
NotVertexOrEdge(model) == model_type_of(model) = ""

\* the field and the definition a dialogue is about
AskedField(a, which) ==
  CASE which = "field" -> a.field
    [] which = "new"   -> a.new_field
    [] which = "old"   -> a.old_field
    [] OTHER           -> NoField

AskedDef(a, which) ==
  CASE which = "field" -> a.field_def
    [] which = "new"   -> a.new_def
    [] which = "old"   -> a.old_def
    [] OTHER           -> NoDef

\* field_def[2]['default'] = value, on the definition the dialogue is about
SetDefault(a, which, value) ==
  CASE which = "field" -> [a EXCEPT !.field_def.default = value]
    [] which = "new"   -> [a EXCEPT !.new_def.default = value]
    [] which = "old"   -> [a EXCEPT !.old_def.default = value]
    [] OTHER           -> a

\* isinstance(field, (String, Text)) and field.blank
IsBlankText(field) == field.type \in {"String", "Text"} /\ field.blank

\* choice "3" accepted whether or not the backward migration is at issue
AcceptsThree_always(a) == TRUE

\* elif choice == "3" and self.issue_with_backward_migration
AcceptsThree(a) == a.issue_with_backward_migration

\* AddField.__init__: if not is_required and not default
AddField_asks(field) == ~field.required /\ ~(field.default # None)

\* ChangeField.__init__, first test: the dialogue about new_field
ChangeField_asks_new(old_field, new_field) ==
  old_field.required /\ ~new_field.required /\ ~(new_field.default # None)

\* ChangeField.__init__, second test: the dialogue about old_field
ChangeField_asks_old(old_field, new_field) ==
  ~old_field.required /\ new_field.required /\ ~(old_field.default # None)

Dialogue(a, which, end) ==
  [on |-> which, reason |-> a.null_reason,
   offered3 |-> a.issue_with_backward_migration, end |-> end]

\* where a step leaves the process: the fields of the state it writes
Outcome(p, a, d, n, o) == [pc |-> p, cur |-> a, dlg |-> d, ndlg |-> n, out |-> o]

\* deal_with_not_null_no_default up to its first raw_input, called last in a constructor
DealLast(a, which, n, o) ==
  IF IsBlankText(AskedField(a, which))
  THEN Outcome("built", SetDefault(a, which, "''"), Dialogue(a, which, "blank"), n + 1, o)
  ELSE Outcome("choice", a, Dialogue(a, which, "open"), n + 1, "question")

\* the constructor after a dialogue returned (or was not started): ChangeField goes on
\* to its second test, the other constructors are finished
AfterDialogue(a, d, n, o) ==
  IF a.cls = "ChangeField" /\ d.on \in {"none", "new"}
     /\ ChangeField_asks_old(a.old_field, a.new_field)
  THEN DealLast([a EXCEPT !.null_reason = "making this field nullable",
                          !.issue_with_backward_migration = TRUE], "old", n, o)
  ELSE Outcome("built", a, d, n, o)

\* deal_with_not_null_no_default up to its first raw_input
Deal(a, which, n, o) ==
  IF IsBlankText(AskedField(a, which))
  THEN AfterDialogue(SetDefault(a, which, "''"), Dialogue(a, which, "blank"), n + 1, o)
  ELSE Outcome("choice", a, Dialogue(a, which, "open"), n + 1, "question")

\* raise MogwaiMigrationException out of a constructor
RaiseNotVertexOrEdge(a) ==
  /\ pc' = "raised"
  /\ exc' = "MogwaiMigrationException"
  /\ cur' = a
  /\ UNCHANGED <<dlg, ndlg, out>>

Goto(r) ==
  /\ pc' = r.pc
  /\ cur' = r.cur
  /\ dlg' = r.dlg
  /\ ndlg' = r.ndlg
  /\ out' = r.out

\* what every constructor call resets: nothing was typed, printed or returned yet
Call(a) ==
  /\ pc = "idle"
  /\ Len(calls.f) < MaxActions /\ Len(calls.b) < MaxActions
  /\ args' = a
  /\ last' = "none"
  /\ ret' = NoRet
  /\ did' = {}
  /\ UNCHANGED <<exit_status, forwards, backwards, calls>>

\* AddModel.__init__ (DeleteModel inherits it)
AddModel_init(cls, model, model_def, app_name) ==
  LET a == [NewAction(cls, model, app_name) EXCEPT !.model_def = model_def]
  IN  /\ Call(a)
      /\ IF NotVertexOrEdge(model)
         THEN RaiseNotVertexOrEdge(a)
         ELSE Goto(Outcome("built", a, NoDlg, 0, "none")) /\ exc' = ""

\* AddField.__init__ (DeleteField inherits it)
AddField_init(cls, model, field, field_def, app_name) ==
  LET a == [NewAction(cls, model, app_name) EXCEPT !.field = field, !.field_def = field_def]
  IN  /\ Call(a)
      /\ IF NotVertexOrEdge(model)
         THEN RaiseNotVertexOrEdge(a)
         ELSE /\ exc' = ""
              /\ IF AddField_asks(field)
                 THEN Goto(Deal(a, "field", 0, "none"))
                 ELSE Goto(Outcome("built", a, NoDlg, 0, "none"))

\* ChangeField.__init__
ChangeField_init(model, old_field, new_field, old_def, new_def, app_name) ==
  LET a == [NewAction("ChangeField", model, app_name) EXCEPT
              !.old_field = old_field, !.new_field = new_field,
              !.old_def = old_def, !.new_def = new_def]
  IN  /\ Call(a)
      /\ IF NotVertexOrEdge(model)
         THEN RaiseNotVertexOrEdge(a)
         ELSE /\ exc' = ""
              /\ IF ChangeField_asks_new(old_field, new_field)
                 THEN Goto(Deal(a, "new", 0, "none"))
                 ELSE Goto(AfterDialogue(a, NoDlg, 0, "none"))

\* AddUnique.__init__ (DeleteUnique inherits it) and AddIndex.__init__
\* (DeleteIndex and UpdateIndex inherit it)
AddUnique_init(cls, model, fields, app_name) ==
  LET a == [NewAction(cls, model, app_name) EXCEPT !.fields = fields]
  IN  /\ Call(a)
      /\ IF NotVertexOrEdge(model)
         THEN RaiseNotVertexOrEdge(a)
         ELSE Goto(Outcome("built", a, NoDlg, 0, "none")) /\ exc' = ""

\* ------------------------------------------------------------------ the dialogue
\* one pass of the while loop of deal_with_not_null_no_default, and what follows it
Choose(choice) ==
  /\ pc = "choice"
  /\ last' = choice
  /\ UNCHANGED <<args, ret, forwards, backwards, calls, did>>
  /\ IF choice = "1"
     THEN /\ pc' = "exited"
          /\ exit_status' = 1
          /\ UNCHANGED <<cur, dlg, ndlg, out, exc>>
     ELSE IF choice = "2"
     THEN /\ pc' = "code"
          /\ out' = "enter_code"
          /\ UNCHANGED <<cur, dlg, ndlg, exit_status, exc>>
     ELSE IF choice = "3" /\ AcceptsThree(cur)
     THEN /\ Goto(AfterDialogue([cur EXCEPT !.irreversible = TRUE],
                                [dlg EXCEPT !.end = "irreversible"], ndlg, out))
          /\ UNCHANGED <<exit_status, exc>>
     ELSE /\ out' = "invalid_choice"
          /\ UNCHANGED <<pc, cur, dlg, ndlg, exit_status, exc>>

\* eval(code, {}, {"datetime": datetime}) on the inputs of Codes
Eval(code) ==
  CASE code = "1"   -> "value"
    [] code = "1 +" -> "SyntaxError"
    [] code = "x"   -> "NameError"
    [] code = "1/0" -> "ZeroDivisionError"
    [] OTHER        -> "SyntaxError"

\* what add_one_time_default does with the evaluated result: the assignment to
\* field_def[2]['default'] is commented out
AddDefault(a, which, result) == a

\* one pass of the while loop of add_one_time_default, and what follows it
EnterCode(code) ==
  /\ pc = "code"
  /\ last' = code
  /\ UNCHANGED <<args, ret, forwards, backwards, calls, did>>
  /\ IF code = ""
     THEN /\ out' = "need_code"
          /\ UNCHANGED <<pc, cur, dlg, ndlg, exit_status, exc>>
     ELSE IF code = "exit"
     THEN /\ pc' = "exited"
          /\ exit_status' = 1
          /\ UNCHANGED <<cur, dlg, ndlg, out, exc>>
     ELSE IF Eval(code) \in {"SyntaxError", "NameError"}
     THEN /\ out' = "invalid_input"
          /\ UNCHANGED <<pc, cur, dlg, ndlg, exit_status, exc>>
     ELSE IF Eval(code) = "value"
     THEN /\ Goto(AfterDialogue(AddDefault(cur, dlg.on, code),
                                [dlg EXCEPT !.end = "one_off"], ndlg, out))
          /\ UNCHANGED <<exit_status, exc>>
     ELSE /\ pc' = "raised"
          /\ exc' = Eval(code)
          /\ UNCHANGED <<cur, dlg, ndlg, out, exit_status>>

\* ------------------------------------------------------------------ the methods
\* a call of one of the three methods on the constructed action: an exception
\* it raises ends the run
Method(op, r) ==
  /\ pc = "built"
  /\ ret' = [op |-> op, ok |-> r.ok, exc |-> r.exc, text |-> r.text]
  /\ pc' = IF r.ok THEN "built" ELSE "raised"
  /\ exc' = r.exc
  /\ UNCHANGED <<cur, args, dlg, ndlg, last, out, exit_status, forwards, backwards,
                 calls, did>>

ConsoleLine == Method("console_line", console_line(cur))

ForwardsCode == Method("forwards_code", forwards_code(cur))

BackwardsCode == Method("backwards_code", backwards_code(cur))

\* forwards.insert(0, x) / forwards.append(x)
Insert(list, prepend, x) == IF prepend THEN <<x>> \o list ELSE Append(list, x)

\* the driver calls add_forwards and add_backwards once on each action, then goes on
\* to the next action
AfterAdd(d) == IF d = {"f", "b"} THEN "idle" ELSE "built"

\* Action.add_forwards
AddForwards ==
  LET r == forwards_code(cur)
  IN  /\ pc = "built"
      /\ "f" \notin did
      /\ calls' = [calls EXCEPT !.f = Append(@, [prepend |-> prepend_forwards(cur.cls),
                                                 ok |-> r.ok, text |-> r.text])]
      /\ ret' = [op |-> "add_forwards", ok |-> r.ok, exc |-> r.exc, text |-> <<>>]
      /\ exc' = r.exc
      /\ IF r.ok
         THEN /\ forwards' = Insert(forwards, prepend_forwards(cur.cls), r.text)
              /\ did' = did \cup {"f"}
              /\ pc' = AfterAdd(did')
         ELSE /\ pc' = "raised"
              /\ UNCHANGED <<forwards, did>>
      /\ UNCHANGED <<cur, args, dlg, ndlg, last, out, exit_status, backwards>>

\* Action.add_backwards
AddBackwards ==
  LET r == backwards_code(cur)
  IN  /\ pc = "built"
      /\ "b" \notin did
      /\ calls' = [calls EXCEPT !.b = Append(@, [prepend |-> prepend_backwards(cur.cls),
                                                 ok |-> r.ok, text |-> r.text])]
      /\ ret' = [op |-> "add_backwards", ok |-> r.ok, exc |-> r.exc, text |-> <<>>]
      /\ exc' = r.exc
      /\ IF r.ok
         THEN /\ backwards' = Insert(backwards, prepend_backwards(cur.cls), r.text)
              /\ did' = did \cup {"b"}
              /\ pc' = AfterAdd(did')
         ELSE /\ pc' = "raised"
              /\ UNCHANGED <<backwards, did>>
      /\ UNCHANGED <<cur, args, dlg, ndlg, last, out, exit_status, forwards>>

\* ------------------------------------------------------------------ specifications
Init ==
  /\ pc = "idle"
  /\ cur = NoAction
  /\ args = NoAction
  /\ dlg = NoDlg
  /\ ndlg = 0
  /\ last = "none"
  /\ out = "none"
  /\ exit_status = 0
  /\ exc = ""
  /\ ret = NoRet
  /\ forwards = <<>>
  /\ backwards = <<>>
  /\ calls = [f |-> <<>>, b |-> <<>>]
  /\ did = {}

NewModelAction ==
  /\ pc = "idle"
  /\ \E cls \in ModelClasses, m \in Models, md \in ModelDefs, app \in AppNames :
       AddModel_init(cls, m, md, app)

NewFieldAction ==
  /\ pc = "idle"
  /\ \E cls \in FieldClasses, m \in Models, f \in Fields, d \in Defs, app \in AppNames :
       AddField_init(cls, m, f, d, app)

NewChangeField ==
  /\ pc = "idle"
  /\ \E m \in Models, of \in Fields, nf \in Fields, od \in Defs, nd \in Defs,
        app \in AppNames :
       ChangeField_init(m, of, nf, od, nd, app)

NewFieldsAction ==
  /\ pc = "idle"
  /\ \E cls \in UniqueClasses \cup IndexClasses, m \in Models, fs \in FieldLists,
        app \in AppNames :
       AddUnique_init(cls, m, fs, app)

UserChooses == pc = "choice" /\ \E choice \in Choices : Choose(choice)

UserEntersCode == pc = "code" /\ \E code \in Codes : EnterCode(code)

\* the construction of one action and the calls of its methods
Next ==
  \/ NewModelAction
  \/ NewFieldAction
  \/ NewChangeField
  \/ NewFieldsAction
  \/ UserChooses
  \/ UserEntersCode
  \/ ConsoleLine
  \/ ForwardsCode
  \/ BackwardsCode

Spec == Init /\ [][Next]_vars

SeqFieldAction ==
  /\ pc = "idle"
  /\ \E cls \in FieldClasses, m \in Models, f \in SeqFields, app \in AppNames :
       AddField_init(cls, m, f, NoDef, app)

SeqChangeField ==
  /\ pc = "idle"
  /\ \E m \in Models, of \in SeqFields, nf \in SeqFields, app \in AppNames :
       ChangeField_init(m, of, nf, NoDef, NoDef, app)

\* a sequence of actions, each constructed and then spliced into the two lists
NextSeq ==
  \/ NewModelAction
  \/ SeqFieldAction
  \/ SeqChangeField
  \/ NewFieldsAction
  \/ UserChooses
  \/ UserEntersCode
  \/ AddForwards
  \/ AddBackwards

SpecSeq == Init /\ [][NextSeq]_vars

\* ------------------------------------------------------------------ properties
Methods == {"console_line", "forwards_code", "backwards_code"}

\* a constructor got past the Vertex / Edge test
Constructed == pc # "idle" /\ exc # "MogwaiMigrationException"

\* C1: on every successfully constructed action, console_line(), forwards_code()
\* and backwards_code() each return a text fragment, none ends in an error.
C1_MethodsReturnText == (ret.op \in Methods) => ret.ok

\* the order of the fragments of the calls that prepend, then of those that append
Reverse(s) == [i \in 1..Len(s) |-> s[Len(s) + 1 - i]]

Texts(s) == [i \in 1..Len(s) |-> s[i].text]

Prepending(c) == c.prepend

Appending(c) == ~c.prepend

ClaimedList(cs) == Texts(Reverse(SelectSeq(cs, Prepending)) \o SelectSeq(cs, Appending))

\* C2: after add_forwards / add_backwards was called for n actions, each list holds
\* exactly n fragments, the appended ones in the order of application and the
\* prepended ones before them, in reverse order of application.
C2_OneFragmentPerCall ==
  /\ Len(forwards) = Len(calls.f)
  /\ Len(backwards) = Len(calls.b)
  /\ forwards = ClaimedList(calls.f)
  /\ backwards = ClaimedList(calls.b)

\* a dialogue was started by the step and it is about a blank String / Text
StartsDialogue == pc = "idle" /\ dlg'.on # "none"

\* C3: deal_with_not_null_no_default sets the default to the empty-string literal
\* and returns without prompting for a blank String / Text; otherwise it prompts,
\* "1" exits with status 1, "2" goes on to the one-off default, "3" is accepted
\* (irreversible becomes True) only with issue_with_backward_migration, and any
\* other input is reported invalid and prompted for again with nothing changed.
C3_DecisionTree ==
  [][ /\ StartsDialogue =>
           LET f == AskedField(cur', dlg'.on)
           IN  IF f.type \in {"String", "Text"} /\ f.blank
               THEN /\ AskedDef(cur', dlg'.on).default = "''"
                    /\ pc' = "built"
                    /\ out' = "none"
                    /\ cur'.irreversible = FALSE
               ELSE /\ pc' = "choice"
                    /\ out' = "question"
                    /\ AskedDef(cur', dlg'.on) = AskedDef(args', dlg'.on)
      /\ pc = "choice" =>
           CASE last' = "1" -> pc' = "exited" /\ exit_status' = 1
             [] last' = "2" -> pc' = "code" /\ cur' = cur
             [] last' = "3" /\ cur.issue_with_backward_migration ->
                  /\ pc' = "built"
                  /\ cur' = [cur EXCEPT !.irreversible = TRUE]
             [] OTHER ->
                  /\ pc' = "choice"
                  /\ out' = "invalid_choice"
                  /\ cur' = cur
                  /\ dlg' = dlg
                  /\ exit_status' = exit_status
    ]_vars

\* "3" was typed where the backward migration is not at issue, and refused
C3_Witness ==
  /\ pc = "choice"
  /\ last = "3"
  /\ out = "invalid_choice"
  /\ ~cur.issue_with_backward_migration
  /\ cur.irreversible = FALSE

\* the Add action built from the arguments a Delete action was built from
AddOf(a) ==
  LET cls == CASE a.cls = "DeleteModel"  -> "AddModel"
               [] a.cls = "DeleteField"  -> "AddField"
               [] a.cls = "DeleteUnique" -> "AddUnique"
               [] a.cls = "DeleteIndex"  -> "AddIndex"
               [] OTHER                  -> a.cls
  IN  [a EXCEPT !.cls = cls, !.null_reason = null_reason(cls),
                !.issue_with_backward_migration = issue_with_backward_migration(cls)]

DeleteClasses == {"DeleteModel", "DeleteField", "DeleteUnique", "DeleteIndex"}

\* C4: Delete.forwards_code() equals Add.backwards_code() and Delete.backwards_code()
\* equals Add.forwards_code() for the Add action built from the same arguments
\* (Model, Field when not irreversible, Unique, Index).
C4_DeleteInvertsAdd ==
  (cur.cls \in DeleteClasses /\ ~cur.irreversible
     /\ ret.op \in {"forwards_code", "backwards_code"}) =>
    LET other == IF ret.op = "forwards_code" THEN backwards_code(AddOf(cur))
                 ELSE forwards_code(AddOf(cur))
    IN  ret.ok /\ other.ok /\ ret.text = other.text

\* C5: a model that is neither a Vertex nor an Edge subclass makes the constructor
\* fail with MogwaiMigrationException before any prompt and before any change to
\* a field definition; a Vertex subclass gives model_type 'vertex' and the element
\* type as model_name, an Edge subclass 'edge' and the label.
C5_ModelTypeChecked ==
  pc # "idle" =>
    /\ args.model.base \notin {"Vertex", "Edge"} =>
         /\ pc = "raised"
         /\ exc = "MogwaiMigrationException"
         /\ ndlg = 0 /\ out = "none" /\ last = "none"
         /\ cur.field_def = args.field_def
         /\ cur.old_def = args.old_def
         /\ cur.new_def = args.new_def
    /\ args.model.base = "Vertex" =>
         /\ exc # "MogwaiMigrationException"
         /\ cur.model_type = "vertex"
         /\ cur.model_name = args.model.element_type
    /\ args.model.base = "Edge" =>
         /\ exc # "MogwaiMigrationException"
         /\ cur.model_type = "edge"
         /\ cur.model_name = args.model.label

\* the constructor of an AddField whose field would have started the dialogue
\* failed on the model
C5_Witness ==
  /\ pc = "raised"
  /\ exc = "MogwaiMigrationException"
  /\ args.cls = "AddField"
  /\ args.model.base = "object"
  /\ ~args.field.required /\ args.field.default = None /\ ~args.field.blank

\* C6: constructing an AddField / DeleteField starts the conflict resolution
\* exactly when the field is required and its default is None.
C6_AsksWhenRequiredNoDefault ==
  (Constructed /\ args.cls \in FieldClasses) =>
    ((ndlg > 0) <=> (args.field.required /\ args.field.default = None))

\* C7: a ChangeField asks about the new field (reason "making this field
\* non-nullable", no option 3) exactly when old is not required, new is required
\* and new has no default; about the old field (reason "making this field
\* nullable", option 3 offered) exactly when old is required, new is not and old
\* has no default; at most one dialogue runs.
C7_ChangeFieldAsks ==
  (Constructed /\ args.cls = "ChangeField") =>
    LET o == args.old_field
        n == args.new_field
    IN  /\ (dlg.on = "new") <=> (~o.required /\ n.required /\ n.default = None)
        /\ (dlg.on = "new") =>
             (dlg.reason = "making this field non-nullable" /\ ~dlg.offered3)
        /\ (dlg.on = "old") <=> (o.required /\ ~n.required /\ o.default = None)
        /\ (dlg.on = "old") =>
             (dlg.reason = "making this field nullable" /\ dlg.offered3)
        /\ ndlg <= 1

\* C8: after choice "2" and code that evaluates, the definition's default is the
\* one-off value.
C8_OneOffDefaultAdded ==
  (dlg.end = "one_off") => AskedDef(cur, dlg.on).default = last

\* C9: a dialogue ends by returning to the constructor or by exiting with status
\* 1, never with an error.
C9_DialogueEndsCleanly ==
  (dlg.on # "none" /\ dlg.end = "open" /\ pc \notin {"choice", "code"}) =>
    (pc = "exited" /\ exit_status = 1)

====
